---- MODULE Spec2Model ----
(***************************************************************************)
(* Model of the dashboard's client-side bookkeeping: the cursor pagination *)
(* of the Products / Orders / Customers / Events pages, the polling        *)
(* controller of useWebhookEvents and the notification tracker of          *)
(* useWebhookNotifications.                                                *)
(*                                                                         *)
(* React is modelled as follows.  A handler (click, select change, timer   *)
(* tick, promise continuation) is one atomic action that writes the state  *)
(* it sets.  The effects of the render that follows are run by the action  *)
(* RunEffects, which compares every effect's dependency list with the      *)
(* values of the last commit (lastDeps) and runs, in declaration order,    *)
(* the effects whose dependencies changed.  RunEffects is repeated until   *)
(* nothing changes any more (Settled); no handler runs in between.         *)
(***************************************************************************)
EXTENDS Integers, Sequences, FiniteSets, Bags, TLC

\* ---------------------------------------------------------------- bounds
NumItems == 2          \* records the backend holds on the paginated pages
MaxPageSize == 2       \* page sizes offered by the "Items per page" select
MaxDepth == 2          \* longest cursorHistory explored
MaxInflight == 2       \* most requests in flight at once
NumEvents == 4         \* webhook events the backend produces in a session
maxHistory == 2        \* capacity of the notification queue (5 / 10 in the code)

\* ------------------------------------------------------ program constants
Null == -1             \* null / undefined
EmptyStr == 0          \* the empty string '' (falsy, distinct from null)
NoTimer == 0           \* intervalRef.current = null
NoTopic == <<>>        \* the topic filter '' ("All Events"), sent as no topic at all
DefaultPollInterval == 5000
PollIntervals == {2000, 5000}
TopicOptions == {NoTopic, <<"orders", "create">>}
NotifLimit == 20
showOrderNotifications == TRUE
showProductNotifications == FALSE
showCustomerNotifications == FALSE
ErrMsg == "Failed to fetch"
NoError == <<>>        \* error = null; a message m is kept as <<m>>
ExpiryMinutes == 5
CleanupInterval == 60000
StatsPollInterval == 30000

PageSizes == 1..MaxPageSize
GraphqlPages == {"Products", "Orders", "Customers"}
PaginatedPages == GraphqlPages \cup {"Events"}
\* useWebhookNotifications on its own, and inside NotificationContainer with
\* one NotificationToast per queued notification
TrackerPages == {"Notifications", "Toasts"}
\* the Dashboard's useOrderStats, the hook the code runs with autoRefresh on
StatsPages == {"Dashboard"}
\* the Customers list that keeps the hook's defaults (autoRefresh, limit 50)
LivePages == {"CustomerList"}
DefaultLimit == 50
GraphqlHooks == GraphqlPages \cup StatsPages \cup LivePages

Min(a, b) == IF a < b THEN a ELSE b
\* variant: the first argument wins
MaxFirst(a, b) == a

Max(a, b) == IF a > b THEN a ELSE b

\* --------------------------------------------------------------- backend
\* Record i of the backend carries the identifier i; identifiers double as
\* cursors.  Lists are served newest first (largest identifier first).
TopicOf(i) == IF i = 2 THEN <<"products", "update">> ELSE <<"orders", "create">>

\* variant: the prefix test accepts every topic
StartsWithAnything(topic, category) == Len(topic) > 0

\* String.prototype.startsWith(prefix + '/') on a topic "category/action"
StartsWith(topic, category) == Len(topic) > 0 /\ topic[1] = category

\* `x || undefined` / `x || null`: the empty string and null are both falsy
OrNull(x) == IF x = Null \/ x = EmptyStr THEN Null ELSE x
\* variant: the value is kept as it is
OrEmptyKeeps(x) == x

\* `x || ''`
OrEmpty(x) == IF x = Null \/ x = EmptyStr THEN EmptyStr ELSE x

\* the variables of a request: `cursor: cursor || undefined`
Request(t, l, c) == [topic |-> t, limit |-> l, cursor |-> OrNull(c)]

\* identifiers of the records that match a request and lie behind its cursor
Behind(req, n) ==
  {i \in 1..n : /\ (req.topic = NoTopic \/ TopicOf(i) = req.topic)
                /\ (req.cursor = Null \/ i < req.cursor)}

RECURSIVE Descending(_)
Descending(S) ==
  IF S = {} THEN <<>>
  ELSE LET m == CHOOSE x \in S : \A y \in S : y <= x
       IN <<m>> \o Descending(S \ {m})

\* the page a request is answered with, out of n backend records
PageItems(req, n) ==
  LET all == Descending(Behind(req, n))
  IN SubSeq(all, 1, Min(req.limit, Len(all)))

HasMore(req, n) == Cardinality(Behind(req, n)) > req.limit

LastOf(s) == IF Len(s) > 0 THEN s[Len(s)] ELSE Null

ServerPageInfo(req, n) ==
  [hasNextPage |-> HasMore(req, n), endCursor |-> LastOf(PageItems(req, n))]

NoPageInfo == [hasNextPage |-> FALSE, endCursor |-> Null]

\* the variables of the order statistics query: { shopDomain }
StatsRequest == [query |-> "GET_ORDER_STATS"]

\* what the cleanup interval of the notification tracker runs
CleanupJob == [job |-> "cleanup"]

\* ------------------------------------------------------------- variables
VARIABLES
  page,             \* the component this instance is
  isMounted,        \* the component is mounted
  itemsPerPage, cursor, cursorHistory, startIndex,   \* page state
  selectedTopic, pollInterval,                       \* Events page state
  items, pageInfo, totalCount, loading, error,       \* data hook state
  lastFetched,      \* time the last answer was applied
  data,             \* useProductSync: result of the last sync that succeeded
  promise,          \* settlement of the last syncProducts() call
  isPolling, intervalRef, isMountedRef,              \* useWebhookEvents
  timers,           \* interval timers alive in the browser
  inflight,         \* bag of requests awaiting their response
  lastDeps,         \* dependency values seen by the last effect run
  evGen,            \* identity of the events array (changes on setEvents)
  notifications, seenEventIds, notificationsEnabled, \* notification tracker
  created,          \* number of events the backend has recorded so far
  nseq,             \* notifications created so far (makes their ids unique)
  emitted,          \* history: notifications added per event id
  lastAction,       \* history: the last handler that ran
  lastArg,          \* history: the number it was called with, if any
  issued,           \* history: requests issued since the last handler began
  wasPolling,       \* history: isPolling when the last handler began
  wasCursor,        \* history: cursor when the last handler began
  rt,               \* history: bookkeeping of a forward/backward round trip
  recovery          \* history: bookkeeping of a refresh begun under an error

pageVars == <<itemsPerPage, cursor, cursorHistory, startIndex, selectedTopic, pollInterval>>
dataVars == <<items, pageInfo, totalCount, lastFetched>>
syncVars == <<data, promise>>
pollVars == <<isPolling, intervalRef, isMountedRef, timers>>
notifVars == <<notifications, seenEventIds, notificationsEnabled, nseq, emitted>>
vars == <<page, syncVars, isMounted, pageVars, dataVars, loading, error, pollVars, inflight,
          lastDeps, evGen, notifVars, created, lastAction, lastArg, issued,
          wasPolling, wasCursor, rt, recovery>>

\* ------------------------------------------------- hook-local operations
\* The part of the state a chain of hook calls reads and writes, threaded
\* through the calls an effect or handler makes.
HookState ==
  [isPolling |-> isPolling, intervalRef |-> intervalRef,
   isMountedRef |-> isMountedRef, timers |-> timers,
   inflight |-> inflight, loading |-> loading, error |-> error,
   issued |-> issued]

\* variant: a fetch starts without clearing the error
fetchPageKeepsError(h, req) ==
  [h EXCEPT !.loading = TRUE,
            !.inflight = @ (+) SetToBag({req}),
            !.issued = Append(@, req)]

\* the synchronous part of fetchProducts / fetchOrders / fetchCustomers
fetchPage(h, req) ==
  [h EXCEPT !.loading = TRUE, !.error = NoError,
            !.inflight = @ (+) SetToBag({req}),
            !.issued = Append(@, req)]

\* the synchronous part of fetchEvents
fetchEvents(h, req) ==
  IF ~h.isMountedRef THEN h ELSE fetchPage(h, req)

\* variant: clearing an interval leaves its timer armed
clearIntervalNoop(h, id) == h

clearInterval(h, id) == [h EXCEPT !.timers = {t \in @ : t.id # id}]

\* setInterval returns an identifier no live timer carries
FreshTimerId(live) ==
  CHOOSE i \in 1..(Cardinality(live) + 1) : \A t \in live : t.id # i

\* variant: the interval armed before is not cleared
startPollingNoClear(h, req, interval) ==
  LET h2 == [h EXCEPT !.isPolling = TRUE]
      h3 == fetchEvents(h2, req)
      id == FreshTimerId(h3.timers)
  IN [h3 EXCEPT !.timers = @ \cup {[id |-> id, req |-> req, interval |-> interval]},
                !.intervalRef = id]

\* variant: no immediate fetch, the first request waits for the first tick
startPollingLazy(h, req, interval) ==
  LET h1 == IF h.intervalRef # NoTimer THEN clearInterval(h, h.intervalRef) ELSE h
      h2 == [h1 EXCEPT !.isPolling = TRUE]
      id == FreshTimerId(h2.timers)
  IN [h2 EXCEPT !.timers = @ \cup {[id |-> id, req |-> req, interval |-> interval]},
                !.intervalRef = id]

startPolling(h, req, interval) ==
  LET h1 == IF h.intervalRef # NoTimer THEN clearInterval(h, h.intervalRef) ELSE h
      h2 == [h1 EXCEPT !.isPolling = TRUE]
      h3 == fetchEvents(h2, req)
      id == FreshTimerId(h3.timers)
  IN [h3 EXCEPT !.timers = @ \cup {[id |-> id, req |-> req, interval |-> interval]},
                !.intervalRef = id]

stopPolling(h) ==
  LET h1 == IF h.intervalRef # NoTimer
            THEN [clearInterval(h, h.intervalRef) EXCEPT !.intervalRef = NoTimer]
            ELSE h
  IN [h1 EXCEPT !.isPolling = FALSE]

\* write a threaded hook state back to the variables; runs that would put
\* more than MaxInflight requests in flight are not explored
Commit(h) ==
  /\ BagCardinality(h.inflight) <= MaxInflight
  /\ isPolling' = h.isPolling
  /\ intervalRef' = h.intervalRef
  /\ isMountedRef' = h.isMountedRef
  /\ timers' = h.timers
  /\ inflight' = h.inflight
  /\ loading' = h.loading
  /\ error' = h.error
  /\ issued' = h.issued

\* ------------------------------------------------ props of the data hooks
\* autoStart as passed by the component that owns the hook
autoStart ==
  IF page = "Events" THEN cursor = Null
  ELSE IF page \in TrackerPages THEN notificationsEnabled
  ELSE FALSE

\* autoRefresh as passed by the component that owns the hook
autoRefresh == page \in StatsPages \cup LivePages

limit ==
  IF page \in TrackerPages THEN NotifLimit
  ELSE IF page \in LivePages THEN DefaultLimit
  ELSE itemsPerPage

\* the request the fetch function of the current render issues
CurrentRequest ==
  IF page \in StatsPages THEN StatsRequest ELSE Request(selectedTopic, limit, cursor)

\* dependency values of the current render
Deps ==
  [ran |-> TRUE, autoStart |-> autoStart, topic |-> selectedTopic,
   limit |-> limit, cursor |-> cursor, pollInterval |-> pollInterval,
   isPolling |-> isPolling, evGen |-> evGen,
   notificationsEnabled |-> notificationsEnabled]

Settled == lastDeps = Deps

\* fetchProducts / fetchEvents is a new function: [shopDomain, topic, limit, cursor]
FetchChanged ==
  \/ ~lastDeps.ran
  \/ lastDeps.topic # selectedTopic
  \/ lastDeps.limit # limit
  \/ lastDeps.cursor # cursor

\* startPolling is a new function: [fetchEvents, pollInterval]
StartPollingChanged == FetchChanged \/ lastDeps.pollInterval # pollInterval

\* ------------------------------------------------------------ round trip
\* no syncProducts() call made yet
NoPromise == [state |-> "none", returned |-> <<>>, thrown |-> <<>>]

NoRT ==
  [on |-> FALSE, cursor |-> Null, history |-> <<>>, startIndex |-> 1,
   fwd |-> 0, back |-> 0, quiet |-> TRUE]

Quiet == BagCardinality(inflight) = 0

\* the displayed list is the page of the current cursor
Consistent == items = PageItems(CurrentRequest, created)

\* ------------------------------------------------------------- recovery
\* no observer of refreshes / an observer with nothing to follow
Unwatched ==
  [watch |-> FALSE, on |-> FALSE, req |-> StatsRequest, failed |-> FALSE, done |-> FALSE]

Idle == [Unwatched EXCEPT !.watch = TRUE]

\* ------------------------------------------------------------------ Init
InitCommon ==
  /\ isMounted = TRUE
  /\ data = <<>>
  /\ promise = NoPromise
  /\ itemsPerPage = MaxPageSize
  /\ cursor = Null
  /\ cursorHistory = <<>>
  /\ startIndex = 1
  /\ selectedTopic = NoTopic
  /\ pollInterval = DefaultPollInterval
  /\ items = <<>>
  /\ pageInfo = NoPageInfo
  /\ totalCount = 0
  /\ lastFetched = Null
  /\ loading = FALSE
  /\ error = NoError
  /\ isPolling = FALSE
  /\ intervalRef = NoTimer
  /\ isMountedRef = TRUE
  /\ timers = {}
  /\ inflight = EmptyBag
  /\ evGen = 0
  /\ notifications = <<>>
  /\ seenEventIds = {}
  /\ notificationsEnabled = TRUE
  /\ nseq = 0
  /\ emitted = [i \in 1..(NumEvents + 1) |-> 0]
  /\ lastAction = "init"
  /\ lastArg = 0
  /\ issued = <<>>
  /\ wasPolling = FALSE
  /\ wasCursor = Null
  /\ rt = NoRT

Init ==
  /\ page \in PaginatedPages \cup StatsPages
  /\ created = NumItems
  /\ InitCommon
  /\ recovery = Unwatched
  /\ lastDeps = [Deps EXCEPT !.ran = FALSE]

\* every handler starts from a settled, mounted component
Ready == isMounted /\ Settled

\* the observer follows the request of a refresh called while an error is
\* displayed, and forgets a finished observation at the next handler
Begin(name, arg) ==
  /\ lastAction' = name
  /\ lastArg' = arg
  /\ wasPolling' = isPolling
  /\ wasCursor' = cursor
  /\ recovery' =
       IF ~recovery.watch THEN recovery
       ELSE IF name = "handleRefresh"
       THEN IF error # NoError
            THEN [Idle EXCEPT !.on = TRUE, !.req = CurrentRequest]
            ELSE Idle
       ELSE IF recovery.done THEN Idle ELSE recovery

Started == [HookState EXCEPT !.issued = <<>>]

\* the fetch function of the page's data hook
fetch(h, req) == IF page \in GraphqlHooks THEN fetchPage(h, req) ELSE fetchEvents(h, req)

RtNext ==
  IF rt.on /\ rt.back = 0
  THEN [rt EXCEPT !.fwd = @ + 1, !.quiet = @ /\ Quiet]
  ELSE NoRT

RtPrev ==
  IF rt.on /\ rt.back < rt.fwd
  THEN [rt EXCEPT !.back = @ + 1, !.quiet = @ /\ Quiet]
  ELSE NoRT

\* ------------------------------------------------- pagination handlers
\* variant: the cursor history survives a refresh
handleRefreshKeepsHistory ==
  /\ Ready /\ page \in PaginatedPages
  /\ ~loading
  /\ Begin("handleRefresh", 0)
  /\ cursor' = Null
  /\ startIndex' = 1
  /\ Commit(fetch(Started, CurrentRequest))
  /\ rt' = NoRT
  /\ UNCHANGED <<page, syncVars, isMounted, itemsPerPage, cursorHistory, selectedTopic, pollInterval,
                 dataVars, lastDeps, evGen, notifVars, created>>

handleRefresh ==
  /\ Ready /\ page \in PaginatedPages
  /\ ~loading                                   \* disabled={loading}
  /\ Begin("handleRefresh", 0)
  /\ cursor' = Null
  /\ cursorHistory' = <<>>
  /\ startIndex' = 1
  \* refresh is the fetch function of the render the click happened in
  /\ Commit(fetch(Started, CurrentRequest))
  /\ rt' = NoRT
  /\ UNCHANGED <<page, syncVars, isMounted, itemsPerPage, selectedTopic, pollInterval, dataVars,
                 lastDeps, evGen, notifVars, created>>

\* variant: the page size changes but the position is kept
handleItemsPerPageChangeKeepsCursor(value) ==
  /\ Ready /\ page \in PaginatedPages
  /\ ~loading
  /\ value # itemsPerPage
  /\ Begin("handleItemsPerPageChange", value)
  /\ itemsPerPage' = value
  /\ Commit(Started)
  /\ rt' = NoRT
  /\ UNCHANGED <<page, syncVars, isMounted, cursor, cursorHistory, startIndex, selectedTopic,
                 pollInterval, dataVars, lastDeps, evGen, notifVars, created>>

handleItemsPerPageChange(value) ==
  /\ Ready /\ page \in PaginatedPages
  /\ ~loading                                   \* disabled={loading}
  /\ value # itemsPerPage                       \* onChange of the select
  /\ Begin("handleItemsPerPageChange", value)
  /\ itemsPerPage' = value
  /\ cursor' = Null
  /\ cursorHistory' = <<>>
  /\ startIndex' = 1
  /\ Commit(Started)
  /\ rt' = NoRT
  /\ UNCHANGED <<page, syncVars, isMounted, selectedTopic, pollInterval, dataVars,
                 lastDeps, evGen, notifVars, created>>

\* variant: the new cursor, not the current one, is pushed on the history
handleNextPagePushesNew ==
  /\ Ready /\ page \in PaginatedPages
  /\ ~loading
  /\ Len(cursorHistory) < MaxDepth
  /\ Begin("handleNextPage", 0)
  /\ IF pageInfo.hasNextPage /\ OrNull(pageInfo.endCursor) # Null
     THEN /\ cursorHistory' = Append(cursorHistory, pageInfo.endCursor)
          /\ cursor' = pageInfo.endCursor
          /\ startIndex' = startIndex + itemsPerPage
          /\ rt' = RtNext
     ELSE UNCHANGED <<cursorHistory, cursor, startIndex, rt>>
  /\ Commit(Started)
  /\ UNCHANGED <<page, syncVars, isMounted, itemsPerPage, selectedTopic, pollInterval, dataVars,
                 lastDeps, evGen, notifVars, created>>

handleNextPage ==
  /\ Ready /\ page \in PaginatedPages
  /\ ~loading                                   \* disabled={... || loading}
  /\ Len(cursorHistory) < MaxDepth
  /\ Begin("handleNextPage", 0)
  /\ IF pageInfo.hasNextPage /\ OrNull(pageInfo.endCursor) # Null
     THEN /\ cursorHistory' = Append(cursorHistory, OrEmpty(cursor))
          /\ cursor' = pageInfo.endCursor
          /\ startIndex' = startIndex + itemsPerPage
          /\ rt' = RtNext
     ELSE UNCHANGED <<cursorHistory, cursor, startIndex, rt>>
  /\ Commit(Started)
  /\ UNCHANGED <<page, syncVars, isMounted, itemsPerPage, selectedTopic, pollInterval, dataVars,
                 lastDeps, evGen, notifVars, created>>

canGoPrevious == Len(cursorHistory) > 0 \/ cursor # Null

\* variant: the last history entry is read but not removed
handlePreviousPageNoPop ==
  /\ Ready /\ page \in PaginatedPages
  /\ canGoPrevious /\ ~loading
  /\ Begin("handlePreviousPage", 0)
  /\ IF Len(cursorHistory) > 0
     THEN /\ cursor' = OrNull(cursorHistory[Len(cursorHistory)])
          /\ startIndex' = Max(1, startIndex - itemsPerPage)
          /\ rt' = RtPrev
          /\ UNCHANGED cursorHistory
     ELSE /\ cursor' = Null
          /\ startIndex' = 1
          /\ rt' = NoRT
          /\ UNCHANGED cursorHistory
  /\ Commit(Started)
  /\ UNCHANGED <<page, syncVars, isMounted, itemsPerPage, selectedTopic, pollInterval, dataVars,
                 lastDeps, evGen, notifVars, created>>

handlePreviousPage ==
  /\ Ready /\ page \in PaginatedPages
  /\ canGoPrevious /\ ~loading                  \* disabled={!canGoPrevious || loading}
  /\ Begin("handlePreviousPage", 0)
  /\ IF Len(cursorHistory) > 0
     THEN /\ cursorHistory' = SubSeq(cursorHistory, 1, Len(cursorHistory) - 1)
          /\ cursor' = OrNull(cursorHistory[Len(cursorHistory)])
          /\ startIndex' = Max(1, startIndex - itemsPerPage)
          /\ rt' = RtPrev
     ELSE /\ cursor' = Null
          /\ startIndex' = 1
          /\ rt' = NoRT
          /\ UNCHANGED cursorHistory
  /\ Commit(Started)
  /\ UNCHANGED <<page, syncVars, isMounted, itemsPerPage, selectedTopic, pollInterval, dataVars,
                 lastDeps, evGen, notifVars, created>>

\* --------------------------------------------- Events page: other controls
\* onClick={isPolling ? stopPolling : startPolling}
clickStartPolling ==
  /\ Ready /\ page = "Events"
  /\ ~isPolling
  /\ Begin("startPolling", 0)
  /\ Commit(startPolling(Started, CurrentRequest, pollInterval))
  /\ rt' = NoRT
  /\ UNCHANGED <<page, syncVars, isMounted, pageVars, dataVars, lastDeps, evGen, notifVars, created>>

clickStopPolling ==
  /\ Ready /\ page = "Events"
  /\ isPolling
  /\ Begin("stopPolling", 0)
  /\ Commit(stopPolling(Started))
  /\ rt' = NoRT
  /\ UNCHANGED <<page, syncVars, isMounted, pageVars, dataVars, lastDeps, evGen, notifVars, created>>

setSelectedTopic(value) ==
  /\ Ready /\ page = "Events"
  /\ value # selectedTopic
  /\ Begin("setSelectedTopic", 0)
  /\ selectedTopic' = value
  /\ Commit(Started)
  /\ rt' = NoRT
  /\ UNCHANGED <<page, syncVars, isMounted, itemsPerPage, cursor, cursorHistory, startIndex,
                 pollInterval, dataVars, lastDeps, evGen, notifVars, created>>

setPollInterval(value) ==
  /\ Ready /\ page = "Events"
  /\ value # pollInterval
  /\ Begin("setPollInterval", value)
  /\ pollInterval' = value
  /\ Commit(Started)
  /\ rt' = NoRT
  /\ UNCHANGED <<page, syncVars, isMounted, itemsPerPage, cursor, cursorHistory, startIndex,
                 selectedTopic, dataVars, lastDeps, evGen, notifVars, created>>

\* a tick of an interval timer calls the fetchEvents it was created with
Tick(t) ==
  /\ Ready /\ t \in timers
  /\ t.req # CleanupJob
  /\ Begin("tick", 0)
  /\ Commit(fetch(Started, t.req))
  /\ UNCHANGED <<page, syncVars, isMounted, pageVars, dataVars, lastDeps, evGen, notifVars,
                 created, rt>>

\* ------------------------------------------------------ notification queue
Tracker ==
  [notifications |-> notifications, seenEventIds |-> seenEventIds,
   nseq |-> nseq, emitted |-> emitted]

\* variant: the seen-id test is missing
shouldNotifyUnseen(eventId, seen) ==
  notificationsEnabled /\ showOrderNotifications /\ StartsWith(TopicOf(eventId), "orders")

\* shouldNotify of the render whose seen-id set is `seen`
shouldNotify(eventId, seen) ==
  IF ~notificationsEnabled THEN FALSE
  ELSE IF eventId \in seen THEN FALSE
  ELSE IF showOrderNotifications /\ StartsWith(TopicOf(eventId), "orders") THEN TRUE
  ELSE IF showProductNotifications /\ StartsWith(TopicOf(eventId), "products") THEN TRUE
  ELSE IF showCustomerNotifications /\ StartsWith(TopicOf(eventId), "customers") THEN TRUE
  ELSE FALSE

\* Array.prototype.slice(0, n)
Slice(s, n) == SubSeq(s, 1, Min(n, Len(s)))

\* variant: the queue is not cut back to its capacity
addNotificationUncapped(q, eventId) ==
  LET notification == [id |-> <<eventId, q.nseq + 1>>, event |-> eventId, age |-> 0,
                       isVisible |-> TRUE]
  IN [q EXCEPT !.notifications = <<notification>> \o @,
               !.seenEventIds = @ \cup {eventId},
               !.nseq = @ + 1,
               !.emitted[eventId] = @ + 1]

addNotification(q, eventId) ==
  LET notification == [id |-> <<eventId, q.nseq + 1>>, event |-> eventId, age |-> 0,
                       isVisible |-> TRUE]
  IN [q EXCEPT !.notifications = Slice(<<notification>> \o @, maxHistory),
               !.seenEventIds = @ \cup {eventId},
               !.nseq = @ + 1,
               !.emitted[eventId] = @ + 1]

\* events.forEach(event => { if (shouldNotify(event)) addNotification(event) })
RECURSIVE NotifyEach(_, _, _)
NotifyEach(q, evs, seen) ==
  IF evs = <<>> THEN q
  ELSE NotifyEach(IF shouldNotify(Head(evs), seen) THEN addNotification(q, Head(evs)) ELSE q,
                  Tail(evs), seen)

\* the "monitor events" effect: [events, notificationsEnabled]
MonitorEffect(q) ==
  IF /\ page \in TrackerPages
     /\ (~lastDeps.ran \/ lastDeps.evGen # evGen
           \/ lastDeps.notificationsEnabled # notificationsEnabled)
     /\ notificationsEnabled
  THEN NotifyEach(q, items, seenEventIds)
  ELSE q

\* ----------------------------------------------------------------- effects
\* variant: the mount effect runs once, on mount
MountEffectOnce(h) ==
  IF ~lastDeps.ran
  THEN IF autoStart THEN startPolling(h, CurrentRequest, pollInterval) ELSE h
  ELSE h

\* useWebhookEvents, mount / auto-start effect: [autoStart, startPolling, stopPolling]
MountEffect(h) ==
  IF StartPollingChanged \/ lastDeps.autoStart # autoStart
  THEN LET cleaned == IF lastDeps.ran
                      THEN stopPolling([h EXCEPT !.isMountedRef = FALSE])
                      ELSE h
           mounted == [cleaned EXCEPT !.isMountedRef = TRUE]
       IN IF autoStart THEN startPolling(mounted, CurrentRequest, pollInterval) ELSE mounted
  ELSE h

\* useWebhookEvents, restart effect: [shopDomain, topic, pollInterval, startPolling, isPolling]
RestartEffect(h) ==
  IF (StartPollingChanged \/ lastDeps.isPolling # isPolling) /\ isPolling
  THEN startPolling(h, CurrentRequest, pollInterval)
  ELSE h

\* variant: the page never stops the polling
StopWhenPaginatingNever(h) == h

\* Events page, "stop polling when paginating": [cursor, isPolling, stopPolling]
StopWhenPaginatingEffect(h) ==
  IF /\ page = "Events"
     /\ (~lastDeps.ran \/ lastDeps.cursor # cursor \/ lastDeps.isPolling # isPolling)
     /\ cursor # Null /\ isPolling
  THEN stopPolling(h)
  ELSE h

\* variant: the fetch effect runs on mount only
FetchEffectOnMount(h) ==
  IF ~lastDeps.ran THEN fetchPage(h, CurrentRequest) ELSE h

\* useProducts / useOrders / useCustomers, fetch effect: [fetchProducts]
FetchEffect(h) ==
  IF FetchChanged THEN fetchPage(h, CurrentRequest) ELSE h

\* the cleanup of the auto-refresh effect: clearInterval(interval)
AutoRefreshCleanup(h) ==
  IF h.intervalRef # NoTimer
  THEN [clearInterval(h, h.intervalRef) EXCEPT !.intervalRef = NoTimer]
  ELSE h

\* useProducts / useOrders / useCustomers / useOrderStats, auto-refresh
\* effect: [autoRefresh, pollInterval, fetchProducts]; the interval it set is
\* kept in intervalRef for its cleanup
AutoRefreshEffect(h) ==
  IF FetchChanged
  THEN LET cleaned == AutoRefreshCleanup(h)
           id == FreshTimerId(cleaned.timers)
       IN IF autoRefresh
          THEN [cleaned EXCEPT
                  !.timers = @ \cup {[id |-> id, req |-> CurrentRequest,
                                      interval |-> StatsPollInterval]},
                  !.intervalRef = id]
          ELSE cleaned
  ELSE h

\* useWebhookNotifications, cleanup effect: []
CleanupIntervalEffect(h) ==
  IF page \in TrackerPages /\ ~lastDeps.ran
  THEN [h EXCEPT !.timers = @ \cup {[id |-> FreshTimerId(@), req |-> CleanupJob,
                                     interval |-> CleanupInterval]}]
  ELSE h

\* its cleanup: clearInterval(cleanupInterval)
CleanupIntervalCleanup(h) ==
  [h EXCEPT !.timers = {t \in @ : t.req # CleanupJob}]

\* pages, "sync startIndex when cursor changes to null": [cursor]
SyncStartIndexEffect ==
  IF /\ page \in PaginatedPages
     /\ (~lastDeps.ran \/ lastDeps.cursor # cursor)
     /\ cursor = Null
  THEN 1
  ELSE startIndex

\* the effects of one commit, in declaration order
RunEffects ==
  /\ isMounted /\ ~Settled
  /\ Commit(IF page \in GraphqlHooks
            THEN AutoRefreshEffect(FetchEffect(HookState))
            ELSE CleanupIntervalEffect(
                   StopWhenPaginatingEffect(RestartEffect(MountEffect(HookState)))))
  /\ startIndex' = SyncStartIndexEffect
  /\ LET q == MonitorEffect(Tracker)
     IN /\ notifications' = q.notifications
        /\ seenEventIds' = q.seenEventIds
        /\ nseq' = q.nseq
        /\ emitted' = q.emitted
  /\ lastDeps' = Deps
  /\ UNCHANGED <<page, syncVars, isMounted, itemsPerPage, cursor, cursorHistory, selectedTopic,
                 pollInterval, dataVars, evGen, notificationsEnabled, created,
                 lastAction, lastArg, wasPolling, wasCursor, rt,
                 recovery>>

\* --------------------------------------------------------------- responses
\* what a request can throw: an Error with its message (network failure,
\* non-2xx status, GraphQL error array), or a value that is not an Error
NetworkError == [isError |-> TRUE, message |-> ErrMsg]
Thrown ==
  {NetworkError,
   [isError |-> TRUE, message |-> "GraphQL Error (Code: 500)"],
   [isError |-> FALSE, message |-> "aborted"]}

\* the fixed text of the hook's catch block
FailedText ==
  CASE page = "Products" -> "Failed to fetch products"
    [] page = "Orders" -> "Failed to fetch orders"
    [] page \in {"Customers", "CustomerList"} -> "Failed to fetch customers"
    [] page = "Dashboard" -> "Failed to fetch order stats"
    [] page = "ProductSync" -> "Failed to sync products"
    [] OTHER -> "Failed to fetch webhook events"

\* variant: the thrown value itself is stored
errorTextRaw(err) == err.message

\* err instanceof Error ? err.message : 'Failed to fetch ...'
errorText(err) == IF err.isError THEN err.message ELSE FailedText

\* new Date(): a time later than the one stored before
NewDate(prev) == IF prev = 1 THEN 2 ELSE 1

\* variant: the list shown is always the page of the current cursor
responseItemsOfCurrent(req) == PageItems(CurrentRequest, created)

\* the item list of the response to req
responseItems(req) == PageItems(req, created)

\* the continuation of a fetch once its request is answered (ok) or has
\* thrown err
Settle(req, ok, err) ==
  /\ Settled \/ ~isMounted
  /\ BagIn(req, inflight)
  /\ inflight' = inflight (-) SetToBag({req})
  /\ lastAction' = "response"
  /\ lastArg' = 0
  /\ issued' = <<>>
  /\ wasPolling' = FALSE
  /\ wasCursor' = Null
  /\ IF page \in StatsPages
     THEN IF isMounted
          THEN /\ totalCount' = (IF ok THEN created ELSE 0)
               /\ lastFetched' = (IF ok THEN NewDate(lastFetched) ELSE lastFetched)
               /\ error' = (IF ok THEN error ELSE <<errorText(err)>>)
               /\ loading' = FALSE
               /\ UNCHANGED <<items, pageInfo>>
          ELSE UNCHANGED <<dataVars, error, loading>>
     ELSE IF page \in GraphqlHooks
     THEN IF isMounted
          THEN /\ IF ok
                  THEN /\ items' = responseItems(req)
                       /\ totalCount' = created
                       /\ pageInfo' = ServerPageInfo(req, created)
                       /\ lastFetched' = NewDate(lastFetched)
                       /\ UNCHANGED error
                  ELSE /\ error' = <<errorText(err)>>
                       /\ UNCHANGED dataVars
               /\ loading' = FALSE
          ELSE UNCHANGED <<dataVars, error, loading>>
     ELSE IF isMountedRef
          THEN /\ IF ok
                  THEN /\ items' = responseItems(req)
                       /\ pageInfo' = [hasNextPage |-> HasMore(req, created),
                                       endCursor |-> OrNull(LastOf(PageItems(req, created)))]
                       /\ totalCount' = created
                       /\ lastFetched' = NewDate(lastFetched)
                       /\ UNCHANGED error
                  ELSE /\ error' = <<errorText(err)>>
                       /\ UNCHANGED dataVars
               /\ loading' = FALSE
          ELSE UNCHANGED <<dataVars, error, loading>>
  /\ evGen' = IF page \notin GraphqlHooks /\ isMountedRef /\ ok THEN 1 - evGen ELSE evGen
  /\ rt' = IF ok THEN rt ELSE NoRT
  /\ recovery' =
       IF ~recovery.on THEN recovery
       ELSE IF ~ok THEN [recovery EXCEPT !.failed = TRUE]
       ELSE IF req = recovery.req THEN [recovery EXCEPT !.on = FALSE, !.done = TRUE]
       ELSE recovery
  /\ UNCHANGED <<page, syncVars, isMounted, pageVars, pollVars, lastDeps, notifVars, created>>

Respond(req, ok) == Settle(req, ok, NetworkError)

\* variant: the catch block of a paginated hook also empties the list and
\* the count
ThrowResets(req, err) ==
  /\ page \in GraphqlPages /\ isMounted /\ Settled
  /\ BagIn(req, inflight)
  /\ inflight' = inflight (-) SetToBag({req})
  /\ lastAction' = "response"
  /\ lastArg' = 0
  /\ issued' = <<>>
  /\ wasPolling' = FALSE
  /\ wasCursor' = Null
  /\ items' = <<>>
  /\ totalCount' = 0
  /\ error' = <<errorText(err)>>
  /\ loading' = FALSE
  /\ rt' = NoRT
  /\ recovery' = IF recovery.on THEN [recovery EXCEPT !.failed = TRUE] ELSE recovery
  /\ UNCHANGED <<page, syncVars, isMounted, pageVars, pageInfo, lastFetched, pollVars,
                 lastDeps, evGen, notifVars, created>>

Throw(req, err) == Settle(req, FALSE, err)

\* what each of the two calls of fetchEvents can do: answer with an
\* envelope whose success is true or false, or throw
Outcomes == {"success", "failure", "throw"}

\* the message of an envelope; "" when it carries none
EnvelopeMessages == {"", "Shop not found"}

\* eventsResponse.message || 'Failed to fetch webhook events'
messageOr(message) == IF message = "" THEN FailedText ELSE message

\* the continuation of fetchEvents when neither call threw: the events
\* envelope is applied, then the stats envelope, then lastFetched is set
Envelopes(req, eventsSuccess, statsSuccess, message) ==
  /\ page \in {"Events"} \cup TrackerPages
  /\ Settled \/ ~isMounted
  /\ BagIn(req, inflight)
  /\ inflight' = inflight (-) SetToBag({req})
  /\ lastAction' = "response"
  /\ lastArg' = 0
  /\ issued' = <<>>
  /\ wasPolling' = FALSE
  /\ wasCursor' = Null
  /\ IF isMountedRef
     THEN /\ IF eventsSuccess
             THEN /\ items' = responseItems(req)
                  /\ pageInfo' = [hasNextPage |-> HasMore(req, created),
                                  endCursor |-> OrNull(LastOf(PageItems(req, created)))]
                  /\ UNCHANGED error
             ELSE /\ error' = <<messageOr(message)>>
                  /\ UNCHANGED <<items, pageInfo>>
          /\ totalCount' = (IF statsSuccess THEN created ELSE totalCount)
          /\ lastFetched' = NewDate(lastFetched)
          /\ loading' = FALSE
     ELSE UNCHANGED <<dataVars, error, loading>>
  /\ evGen' = IF isMountedRef /\ eventsSuccess THEN 1 - evGen ELSE evGen
  /\ rt' = IF eventsSuccess THEN rt ELSE NoRT
  /\ recovery' =
       IF ~recovery.on THEN recovery
       ELSE IF ~eventsSuccess THEN [recovery EXCEPT !.failed = TRUE]
       ELSE IF req = recovery.req THEN [recovery EXCEPT !.on = FALSE, !.done = TRUE]
       ELSE recovery
  /\ UNCHANGED <<page, syncVars, isMounted, pageVars, pollVars, lastDeps, notifVars, created>>

\* variant: each call is settled on its own, so the envelope of the call
\* that answered is applied although the other one threw
PromiseAllSettled(req, events, stats, message) ==
  IF events = "throw" /\ stats = "throw"
  THEN Throw(req, NetworkError)
  ELSE Envelopes(req, events = "success", stats = "success", message)

\* await Promise.all([getWebhookEvents, getWebhookEventStats]): rejects as
\* soon as one of the two calls throws
PromiseAll(req, events, stats, message) ==
  IF "throw" \in {events, stats}
  THEN Throw(req, NetworkError)
  ELSE Envelopes(req, events = "success", stats = "success", message)

\* variant: the component leaves the tree and no cleanup runs
UnmountNoCleanup ==
  /\ Ready
  /\ isMounted' = FALSE
  /\ Begin("unmount", 0)
  /\ Commit(Started)
  /\ rt' = NoRT
  /\ UNCHANGED <<page, syncVars, pageVars, dataVars, lastDeps, evGen, notifVars, created>>

\* the component leaves the tree: every effect's cleanup runs
Unmount ==
  /\ Ready
  /\ isMounted' = FALSE
  /\ Begin("unmount", 0)
  /\ Commit(IF page \in GraphqlHooks
            THEN AutoRefreshCleanup(Started)
            ELSE CleanupIntervalCleanup(
                   stopPolling([Started EXCEPT !.isMountedRef = FALSE])))
  /\ rt' = NoRT
  /\ UNCHANGED <<page, syncVars, pageVars, dataVars, lastDeps, evGen, notifVars, created>>

\* ------------------------------------------------------------------- Next
Next ==
  \/ RunEffects
  \/ handleRefresh
  \/ \E value \in PageSizes : handleItemsPerPageChange(value)
  \/ handleNextPage
  \/ handlePreviousPage
  \/ clickStartPolling
  \/ clickStopPolling
  \/ \E value \in TopicOptions : setSelectedTopic(value)
  \/ \E value \in PollIntervals : setPollInterval(value)
  \/ \E t \in timers : Tick(t)
  \/ \E req \in BagToSet(inflight), ok \in BOOLEAN : Respond(req, ok)
  \/ Unmount

Spec == Init /\ [][Next]_vars

TypeOK ==
  /\ cursor \in {Null} \cup (1..NumItems)
  /\ Len(cursorHistory) <= MaxDepth
  /\ BagCardinality(inflight) <= MaxInflight
  /\ lastFetched \in {Null, 1, 2}

\* ------------------------------------------ notification tracker handlers
InitNotif ==
  /\ page = "Notifications"
  /\ created = 0
  /\ InitCommon
  /\ lastDeps = [Deps EXCEPT !.ran = FALSE]
  /\ recovery = Unwatched

InitToast ==
  /\ page = "Toasts"
  /\ created = 0
  /\ InitCommon
  /\ lastDeps = [Deps EXCEPT !.ran = FALSE]
  /\ recovery = Unwatched

\* variant: switching the notifications off or on empties the queue
toggleNotificationsClears ==
  /\ Ready /\ page \in TrackerPages
  /\ Begin("toggleNotifications", 0)
  /\ notificationsEnabled' = ~notificationsEnabled
  /\ notifications' = <<>>
  /\ Commit(Started)
  /\ UNCHANGED <<page, syncVars, isMounted, pageVars, dataVars, lastDeps, evGen,
                 seenEventIds, nseq, emitted, created, rt>>

toggleNotifications ==
  /\ Ready /\ page \in TrackerPages
  /\ Begin("toggleNotifications", 0)
  /\ notificationsEnabled' = ~notificationsEnabled
  /\ Commit(Started)
  /\ UNCHANGED <<page, syncVars, isMounted, pageVars, dataVars, lastDeps, evGen, notifications,
                 seenEventIds, nseq, emitted, created, rt>>

\* ---------------------------------------------------- notification toasts
\* The toast of a notification is mounted while the notification is in the
\* queue (key = notification.id); its isVisible state is kept in the entry.
Hide(notificationId) ==
  [i \in 1..Len(notifications) |->
     IF notifications[i].id = notificationId
     THEN [notifications[i] EXCEPT !.isVisible = FALSE]
     ELSE notifications[i]]

\* variant: with autoDismiss off the toast arms no timer
toastTimeoutNever(notificationId) == FALSE /\ UNCHANGED vars

\* the auto-dismiss timer of a toast fires, `duration` after it was mounted
toastTimeout(notificationId) ==
  /\ Ready /\ page = "Toasts"
  /\ \E i \in 1..Len(notifications) :
       notifications[i].id = notificationId /\ notifications[i].isVisible
  /\ Begin("toastTimeout", 0)
  /\ notifications' = Hide(notificationId)
  /\ Commit(Started)
  /\ UNCHANGED <<page, syncVars, isMounted, pageVars, dataVars, lastDeps, evGen, seenEventIds,
                 notificationsEnabled, nseq, emitted, created, rt>>

\* the close button of a toast, rendered while the toast is visible
handleDismiss(notificationId) ==
  /\ Ready /\ page = "Toasts"
  /\ \E i \in 1..Len(notifications) :
       notifications[i].id = notificationId /\ notifications[i].isVisible
  /\ Begin("handleDismiss", 0)
  /\ notifications' = Hide(notificationId)
  /\ Commit(Started)
  /\ UNCHANGED <<page, syncVars, isMounted, pageVars, dataVars, lastDeps, evGen, seenEventIds,
                 notificationsEnabled, nseq, emitted, created, rt>>

\* called by a toast, 300 ms after its timer or its close button fired; by
\* any consumer, at any time, where the hook is used on its own
dismissNotification(notificationId) ==
  /\ Ready /\ page \in TrackerPages
  /\ \E i \in 1..Len(notifications) :
       /\ notifications[i].id = notificationId
       /\ page = "Toasts" => ~notifications[i].isVisible
  /\ Begin("dismissNotification", 0)
  /\ notifications' = SelectSeq(notifications, LAMBDA n : n.id # notificationId)
  /\ Commit(Started)
  /\ UNCHANGED <<page, syncVars, isMounted, pageVars, dataVars, lastDeps, evGen, seenEventIds,
                 notificationsEnabled, nseq, emitted, created, rt>>

\* variant: an entry exactly five minutes old survives the pass
cleanupInclusive ==
  /\ Ready /\ page \in TrackerPages
  /\ \E t \in timers : t.req = CleanupJob
  /\ Begin("cleanup", Len(notifications))
  /\ notifications' = SelectSeq(notifications, LAMBDA n : n.age <= ExpiryMinutes)
  /\ Commit(Started)
  /\ UNCHANGED <<page, syncVars, isMounted, pageVars, dataVars, lastDeps, evGen, seenEventIds,
                 notificationsEnabled, nseq, emitted, created, rt>>

\* the callback of the cleanup interval; lastArg notes the length of the
\* queue the pass started from
cleanup ==
  /\ Ready /\ page \in TrackerPages
  /\ \E t \in timers : t.req = CleanupJob
  /\ Begin("cleanup", Len(notifications))
  \* timestamp > Date.now() - 5 min: the entry is younger than five minutes
  /\ notifications' = SelectSeq(notifications, LAMBDA n : n.age < ExpiryMinutes)
  /\ Commit(Started)
  /\ UNCHANGED <<page, syncVars, isMounted, pageVars, dataVars, lastDeps, evGen, seenEventIds,
                 notificationsEnabled, nseq, emitted, created, rt>>

\* environment: a minute passes.  A notification's timestamp is kept as its
\* age, Date.now() - timestamp, in minutes; at ExpiryMinutes the age stops
\* growing, the cleanup filter being unable to tell older entries apart.
AdvanceTime ==
  /\ Settled /\ page \in TrackerPages
  /\ \E i \in 1..Len(notifications) : notifications[i].age < ExpiryMinutes
  /\ notifications' = [i \in 1..Len(notifications) |->
                         [notifications[i] EXCEPT !.age = Min(@ + 1, ExpiryMinutes)]]
  /\ UNCHANGED <<page, syncVars, isMounted, pageVars, dataVars, loading, error, pollVars, inflight,
                 lastDeps, evGen, seenEventIds, notificationsEnabled,
                 nseq, emitted, created, lastArg, issued, wasPolling, wasCursor, rt,
                 recovery>>
  /\ lastAction' = "time"

\* environment: the shop produces a webhook event
NewEvent ==
  /\ Settled /\ page \in TrackerPages
  /\ created < NumEvents
  /\ created' = created + 1
  /\ UNCHANGED <<page, syncVars, isMounted, pageVars, dataVars, loading, error, pollVars, inflight,
                 lastDeps, evGen, notifVars, lastArg, issued, wasPolling, wasCursor, rt,
                 recovery>>
  /\ lastAction' = "event"

NextNotif ==
  \/ RunEffects
  \/ toggleNotifications
  \/ \E i \in 1..Len(notifications) : dismissNotification(notifications[i].id)
  \/ cleanup
  \/ AdvanceTime
  \/ NewEvent
  \/ \E t \in timers : Tick(t)
  \/ \E req \in BagToSet(inflight), ok \in BOOLEAN : Respond(req, ok)
  \/ Unmount

SpecNotif == InitNotif /\ [][NextNotif]_vars

\* The event loop runs every timer callback that is due and React runs the
\* effects of every commit: the toast timers and the effects are fair.
ToastTimers ==
  \E i \in 1..Len(notifications) :
    toastTimeout(notifications[i].id) \/ dismissNotification(notifications[i].id)

\* The cleanup pass only removes notifications, and only ones the clock has
\* aged, and the toggle button only stops and restarts the polling: the
\* toasts are followed with the clock standing still and notifications on.
NextToast ==
  \/ RunEffects
  \/ \E i \in 1..Len(notifications) : toastTimeout(notifications[i].id)
  \/ \E i \in 1..Len(notifications) : handleDismiss(notifications[i].id)
  \/ \E i \in 1..Len(notifications) : dismissNotification(notifications[i].id)
  \/ NewEvent
  \/ \E t \in timers : Tick(t)
  \/ \E req \in BagToSet(inflight), ok \in BOOLEAN : Respond(req, ok)
  \/ Unmount

SpecToast ==
  /\ InitToast /\ [][NextToast]_vars
  /\ WF_vars(RunEffects)
  /\ SF_vars(ToastTimers)

\* ------------------------------------------------- the hooks that own timers
\* useWebhookEvents (Events page), useOrderStats (Dashboard) and
\* useWebhookNotifications, each in a component that can unmount
InitHooks ==
  \/ Init /\ page \in {"Events"} \cup StatsPages
  \/ InitNotif

\* the operations the hooks themselves export, without the page controls
NextHooks ==
  \/ NextNotif
  \/ handleRefresh
  \/ clickStartPolling
  \/ clickStopPolling
  \/ \E value \in TopicOptions : setSelectedTopic(value)
  \/ \E value \in PollIntervals : setPollInterval(value)

SpecHooks == InitHooks /\ [][NextHooks]_vars

\* onClick={refresh}: the hook's refresh, called by the live list's button
refresh ==
  /\ Ready /\ page \in LivePages
  /\ ~loading                                   \* disabled={loading}
  /\ Begin("refresh", 0)
  /\ Commit(fetch(Started, CurrentRequest))
  /\ UNCHANGED <<page, syncVars, isMounted, pageVars, dataVars, lastDeps, evGen, notifVars,
                 created, rt>>

\* useProducts / useOrders / useCustomers as the paginated pages and the
\* live list configure them
InitFetch ==
  /\ page \in GraphqlPages \cup LivePages
  /\ created = NumItems
  /\ InitCommon
  /\ lastDeps = [Deps EXCEPT !.ran = FALSE]
  /\ recovery = Unwatched

NextFetch ==
  \/ RunEffects
  \/ refresh
  \/ handleRefresh
  \/ \E value \in PageSizes : handleItemsPerPageChange(value)
  \/ handleNextPage
  \/ handlePreviousPage
  \/ \E t \in timers : Tick(t)
  \/ \E req \in BagToSet(inflight), ok \in BOOLEAN : Respond(req, ok)
  \/ Unmount

SpecFetch == InitFetch /\ [][NextFetch]_vars

\* the paginated pages with an observer of refreshes
InitRec ==
  /\ page \in PaginatedPages
  /\ created = NumItems
  /\ InitCommon
  /\ lastDeps = [Deps EXCEPT !.ran = FALSE]
  /\ recovery = Idle

NextRec ==
  \/ RunEffects
  \/ handleRefresh
  \/ \E value \in PageSizes : handleItemsPerPageChange(value)
  \/ handleNextPage
  \/ clickStartPolling
  \/ \E t \in timers : Tick(t)
  \/ \E req \in BagToSet(inflight), ok \in BOOLEAN : Respond(req, ok)
  \/ Unmount

SpecRec == InitRec /\ [][NextRec]_vars

\* ------------------------------------------------------------ EventClient
\* The responses fetch can resolve with. A response with status 204 or 304
\* carries no body; a text body is JSON or a page put in by a proxy.
Statuses == {200, 204, 304, 404, 500}

EmptyBody == ""
JsonBodies == {"{\"success\":true}", "{\"success\":false}"}
Bodies == {EmptyBody, "<html>"} \cup JsonBodies

Responses ==
  {r \in [status : Statuses, body : Bodies] :
     r.status \in {204, 304} => r.body = EmptyBody}

\* response.ok
ok(response) == response.status \in 200..299

StatusText(status) ==
  CASE status = 404 -> "Not Found"
    [] status = 500 -> "Internal Server Error"
    [] status = 304 -> "Not Modified"
    [] status = 204 -> "No Content"
    [] OTHER -> "OK"

\* response.json(): the parsed body, or the SyntaxError of JSON.parse
json(response) ==
  IF response.body \in JsonBodies
  THEN [returned |-> TRUE, value |-> <<response.body = "{\"success\":true}">>]
  ELSE [returned |-> FALSE,
        value |-> <<"SyntaxError",
                    IF response.body = EmptyBody
                    THEN "Unexpected end of JSON input"
                    ELSE "Unexpected token <">>]

\* the part of the three methods after the await of fetch
handleResponse(what, response) ==
  IF ~ok(response) /\ response.status # 304
  THEN [returned |-> FALSE,
        value |-> <<"Error", what, StatusText(response.status)>>]
  ELSE json(response)

\* the URL of a request: path and search parameters
Url(path, l, t, c, id) ==
  [path |-> path, limit |-> l, topic |-> t, cursor |-> c, eventId |-> id]

InitClient ==
  /\ page = "EventClient"
  /\ created = NumItems
  /\ InitCommon
  /\ lastDeps = Deps
  /\ recovery = Unwatched

Call(name, url) ==
  /\ page = "EventClient"
  /\ BagCardinality(inflight) < MaxInflight
  /\ inflight' = inflight (+) SetToBag({url})
  /\ lastAction' = name
  /\ UNCHANGED <<page, syncVars, isMounted, pageVars, dataVars, loading, error, pollVars,
                 lastDeps, evGen, notifVars, created, lastArg, issued,
                 wasPolling, wasCursor, rt,
                 recovery>>

\* options.limit, options.topic and options.cursor are sent when truthy
getWebhookEvents(l, t, c) ==
  Call("getWebhookEvents",
       Url("/api/events", IF l = 0 THEN 50 ELSE l, t, OrNull(c), Null))

getWebhookEventStats ==
  Call("getWebhookEventStats", Url("/api/events/stats", Null, NoTopic, Null, Null))

getWebhookEvent(eventId) ==
  Call("getWebhookEvent", Url("/api/events/", Null, NoTopic, Null, eventId))

FailedToFetch(url) ==
  CASE url.path = "/api/events" -> "Failed to fetch webhook events"
    [] url.path = "/api/events/stats" -> "Failed to fetch webhook event stats"
    [] OTHER -> "Failed to fetch webhook event"

\* fetch resolves with response: the method returns (items holds the value)
\* or throws (error holds the Error)
Resolve(url, response) ==
  /\ page = "EventClient"
  /\ BagIn(url, inflight)
  /\ inflight' = inflight (-) SetToBag({url})
  /\ lastAction' = "resolve"
  /\ lastArg' = response.status
  /\ LET out == handleResponse(FailedToFetch(url), response)
     IN /\ items' = IF out.returned THEN out.value ELSE <<>>
        /\ error' = IF out.returned THEN NoError ELSE out.value
  /\ UNCHANGED <<page, syncVars, isMounted, pageVars, pageInfo, totalCount, lastFetched, loading,
                 pollVars, lastDeps, evGen, notifVars, created, issued,
                 wasPolling, wasCursor, rt,
                 recovery>>

NextClient ==
  \/ \E l \in 0..MaxPageSize, t \in TopicOptions, c \in {Null, EmptyStr} \cup (1..NumItems) :
       getWebhookEvents(l, t, c)
  \/ getWebhookEventStats
  \/ \E eventId \in 1..NumEvents : getWebhookEvent(eventId)
  \/ \E url \in BagToSet(inflight), response \in Responses : Resolve(url, response)

SpecClient == InitClient /\ [][NextClient]_vars

\* ------------------------------------------------------ useProductSync
\* the SyncResult objects the mutation can return
SyncResults == [success : BOOLEAN, imported : 0..NumItems, updated : 0..NumItems]

SYNC_ALL_PRODUCTS == [topic |-> "syncAllProducts", limit |-> 0, cursor |-> Null]

InitSync ==
  /\ page = "ProductSync"
  /\ created = NumItems
  /\ InitCommon
  /\ lastDeps = Deps
  /\ recovery = Unwatched

\* the Sync Products button (disabled while loading): syncProducts() up to
\* its await
handleSync ==
  /\ page = "ProductSync" /\ isMounted
  /\ ~loading
  /\ loading' = TRUE
  /\ error' = NoError
  /\ inflight' = inflight (+) SetToBag({SYNC_ALL_PRODUCTS})
  /\ promise' = [state |-> "pending", returned |-> <<>>, thrown |-> <<>>]
  /\ lastAction' = "handleSync"
  /\ UNCHANGED <<page, data, isMounted, pageVars, dataVars, pollVars, lastDeps, evGen,
                 notifVars, created, lastArg, issued, wasPolling, wasCursor, rt,
                 recovery>>

\* syncProducts() after its await, the request answered with result; the
\* setters of a card that has left the tree do nothing
syncFulfilled(result) ==
  /\ page = "ProductSync"
  /\ BagIn(SYNC_ALL_PRODUCTS, inflight)
  /\ inflight' = inflight (-) SetToBag({SYNC_ALL_PRODUCTS})
  /\ IF isMounted
     THEN /\ data' = <<result>>
          /\ loading' = FALSE
     ELSE UNCHANGED <<data, loading>>
  /\ promise' = [state |-> "fulfilled", returned |-> <<result>>, thrown |-> <<>>]
  /\ lastAction' = "response"
  /\ UNCHANGED <<page, isMounted, pageVars, dataVars, error, pollVars, lastDeps, evGen,
                 notifVars, created, lastArg, issued, wasPolling, wasCursor, rt,
                 recovery>>

\* variant: the catch block does not rethrow
syncRejectedSwallowed(err) ==
  /\ page = "ProductSync"
  /\ BagIn(SYNC_ALL_PRODUCTS, inflight)
  /\ inflight' = inflight (-) SetToBag({SYNC_ALL_PRODUCTS})
  /\ IF isMounted
     THEN /\ error' = <<errorText(err)>>
          /\ loading' = FALSE
     ELSE UNCHANGED <<error, loading>>
  /\ promise' = [state |-> "fulfilled", returned |-> <<>>, thrown |-> <<>>]
  /\ lastAction' = "response"
  /\ UNCHANGED <<page, data, isMounted, pageVars, dataVars, pollVars, lastDeps, evGen,
                 notifVars, created, lastArg, issued, wasPolling, wasCursor, rt,
                 recovery>>

\* syncProducts() after its await, the request having thrown err
syncRejected(err) ==
  /\ page = "ProductSync"
  /\ BagIn(SYNC_ALL_PRODUCTS, inflight)
  /\ inflight' = inflight (-) SetToBag({SYNC_ALL_PRODUCTS})
  /\ IF isMounted
     THEN /\ error' = <<errorText(err)>>
          /\ loading' = FALSE
     ELSE UNCHANGED <<error, loading>>
  /\ promise' = [state |-> "rejected", returned |-> <<>>, thrown |-> <<err>>]
  /\ lastAction' = "response"
  /\ UNCHANGED <<page, data, isMounted, pageVars, dataVars, pollVars, lastDeps, evGen,
                 notifVars, created, lastArg, issued, wasPolling, wasCursor, rt,
                 recovery>>

\* the card leaves the tree; the hook registers no cleanup
unmountCard ==
  /\ page = "ProductSync" /\ isMounted
  /\ isMounted' = FALSE
  /\ lastAction' = "unmount"
  /\ UNCHANGED <<page, syncVars, pageVars, dataVars, loading, error, pollVars, inflight,
                 lastDeps, evGen, notifVars, created, lastArg, issued, wasPolling,
                 wasCursor, rt, recovery>>

NextSync ==
  \/ handleSync
  \/ \E result \in SyncResults : syncFulfilled(result)
  \/ \E err \in Thrown : syncRejected(err)
  \/ unmountCard

SpecSync == InitSync /\ [][NextSync]_vars

\* the events hook with every outcome of its two calls
InitEnv == Init /\ page = "Events"

NextEnv ==
  \/ RunEffects
  \/ handleRefresh
  \/ \E value \in PageSizes : handleItemsPerPageChange(value)
  \/ clickStartPolling
  \/ clickStopPolling
  \/ \E t \in timers : Tick(t)
  \/ \E req \in BagToSet(inflight), events \in Outcomes, stats \in Outcomes,
        message \in EnvelopeMessages : PromiseAll(req, events, stats, message)
  \/ Unmount

SpecEnv == InitEnv /\ [][NextEnv]_vars

\* the data hooks with every value their requests can throw
NextErr ==
  \/ RunEffects
  \/ handleRefresh
  \/ \E value \in PageSizes : handleItemsPerPageChange(value)
  \/ handleNextPage
  \/ clickStartPolling
  \/ \E t \in timers : Tick(t)
  \/ \E req \in BagToSet(inflight) : Respond(req, TRUE)
  \/ \E req \in BagToSet(inflight), err \in Thrown : Throw(req, err)
  \/ Unmount

SpecErr == Init /\ [][NextErr]_vars

\* ------------------------------------------------------------ round trips
\* an observer notes the pagination state a forward/backward trip starts
\* from, in a state that displays the page of its cursor
Mark ==
  /\ Ready /\ page \in PaginatedPages
  /\ ~rt.on
  /\ Consistent
  /\ rt' = [on |-> TRUE, cursor |-> cursor, history |-> cursorHistory,
            startIndex |-> startIndex, fwd |-> 0, back |-> 0,
            quiet |-> Quiet]
  /\ UNCHANGED <<page, syncVars, isMounted, pageVars, dataVars, loading, error, pollVars, inflight,
                 lastDeps, evGen, notifVars, created, lastAction, lastArg, issued,
                 wasPolling, wasCursor,
                 recovery>>

NextRT == Next \/ Mark

SpecRT == Init /\ [][NextRT]_vars

\* ======================================================================
\* Properties
\* ======================================================================
InSeq(x, s) == \E i \in 1..Len(s) : s[i] = x
QueuedEvents == {notifications[i].event : i \in 1..Len(notifications)}

\* C1: over polls that re-deliver seen events, toggles, dismissals, evictions
\* and cleanup passes, an event id produces at most one notification in the
\* lifetime of the hook, also after its notification has left the queue.
C1_AtMostOncePerEvent ==
  \A e \in DOMAIN emitted : emitted[e] <= 1

\* a response has just re-delivered an event whose notification was emitted
\* earlier and has left the queue, and the monitor effect has run on it
C1_Witness ==
  /\ page = "Notifications" /\ lastAction = "response" /\ Settled
  /\ notificationsEnabled
  /\ \E e \in seenEventIds :
       /\ InSeq(e, items)
       /\ emitted[e] = 1
       /\ e \notin QueuedEvents

\* a forward/backward trip of n >= 1 effective Next steps and as many Previous
\* steps is complete, and every request has been answered
RtDone ==
  /\ rt.on /\ rt.fwd > 0 /\ rt.back = rt.fwd
  /\ isMounted /\ Settled /\ Quiet

Restored ==
  /\ cursor = rt.cursor
  /\ cursorHistory = rt.history
  /\ startIndex = rt.startIndex
  /\ items = PageItems(Request(selectedTopic, limit, rt.cursor), created)

C3_StoppedStaysStopped ==
  (/\ page = "Events"
   /\ lastAction \in {"setSelectedTopic", "setPollInterval", "handleItemsPerPageChange"}
   /\ ~wasPolling /\ wasCursor = Null)
  => (issued = <<>> /\ timers = {} /\ ~isPolling)

\* C4: a startPolling call issues exactly one request at once, sets isPolling
\* and leaves one timer armed with the current interval; every tick of the
\* timer issues one more request; ticks and responses never disarm a timer.
StartsOne ==
  /\ inflight' = inflight (+) SetToBag({CurrentRequest})
  /\ issued' = <<CurrentRequest>>
  /\ isPolling'
  /\ intervalRef' # NoTimer
  /\ timers' = {[id |-> intervalRef', req |-> CurrentRequest, interval |-> pollInterval]}

TickFetchesOne ==
  /\ \E t \in timers : /\ inflight' = inflight (+) SetToBag({t.req})
                       /\ issued' = <<t.req>>
  /\ timers' = timers
  /\ isPolling' = isPolling

C4_Step ==
  /\ (Settled /\ lastAction' = "startPolling") => StartsOne
  /\ (Settled /\ lastAction' = "tick") => TickFetchesOne
  /\ lastAction' \in {"tick", "response"} => timers' = timers

C4_StartPollingFetchesAndArms == [][C4_Step]_vars

\* the Start Polling button was pressed on the first page after a user stop
C4_Witness ==
  /\ page = "Events" /\ lastAction = "startPolling" /\ ~wasPolling
  /\ cursor = Null
  /\ isPolling /\ timers # {} /\ Len(issued) > 0

\* C5: handleItemsPerPageChange(v) sets the limit to v, clears the cursor and
\* the history and puts startIndex at 1; the requests that follow ask for
\* the first page with limit v.
C5_PageSizeChangeResets ==
  lastAction = "handleItemsPerPageChange" =>
    /\ itemsPerPage = lastArg
    /\ cursor = Null
    /\ cursorHistory = <<>>
    /\ startIndex = 1
    /\ Settled =>
         /\ Len(issued) > 0
         /\ \A i \in 1..Len(issued) :
              issued[i].limit = lastArg /\ issued[i].cursor = Null

\* the page size was changed on a later page and the first page was requested
C5_Witness ==
  /\ lastAction = "handleItemsPerPageChange" /\ wasCursor # Null
  /\ Settled /\ Len(issued) > 0

\* C6: handleRefresh clears the cursor and the history and puts startIndex
\* at 1, whatever the position was.
C6_RefreshResets ==
  lastAction = "handleRefresh" =>
    (cursor = Null /\ cursorHistory = <<>> /\ startIndex = 1)

\* Refresh was pressed on a later page
C6_Witness ==
  /\ lastAction = "handleRefresh" /\ wasCursor # Null
  /\ cursor = Null /\ cursorHistory = <<>>

\* C7: handleNextPage with a next page and an end cursor pushes the current
\* cursor (empty string for none) and moves to the end cursor, otherwise it
\* changes nothing; handlePreviousPage with a history pops its last entry
\* and moves to it, an empty string meaning no cursor.
NextPageStep ==
  IF pageInfo.hasNextPage /\ OrNull(pageInfo.endCursor) # Null
  THEN /\ cursorHistory' = Append(cursorHistory, IF cursor = Null THEN EmptyStr ELSE cursor)
       /\ cursor' = pageInfo.endCursor
  ELSE UNCHANGED <<pageVars, dataVars, loading, error, pollVars, inflight>>

PreviousPageStep ==
  Len(cursorHistory) > 0 =>
    /\ cursorHistory' = SubSeq(cursorHistory, 1, Len(cursorHistory) - 1)
    /\ cursor' = (IF cursorHistory[Len(cursorHistory)] = EmptyStr
                  THEN Null ELSE cursorHistory[Len(cursorHistory)])

C7_Step ==
  /\ (Settled /\ lastAction' = "handleNextPage") => NextPageStep
  /\ (Settled /\ lastAction' = "handlePreviousPage") => PreviousPageStep

C7_HistoryPushPop == [][C7_Step]_vars

\* Previous has popped the empty string pushed by a Next on the first page
C7_Witness ==
  /\ lastAction = "handlePreviousPage"
  /\ wasCursor # Null /\ cursor = Null /\ cursorHistory = <<>>

\* C8: on the Events page no polling runs while a later page is shown: once
\* the effects have run with a cursor set, no timer is armed and isPolling is
\* false, also after Start Polling was pressed there.
C8_NoPollingWhilePaginating ==
  (page = "Events" /\ cursor # Null /\ Settled) =>
    (timers = {} /\ intervalRef = NoTimer /\ ~isPolling)

\* Start Polling was pressed on a later page and the effects have run
C8_Witness ==
  /\ page = "Events" /\ lastAction = "startPolling"
  /\ cursor # Null /\ Settled /\ Len(issued) > 0

\* C9: a change of topic or interval while polling replaces the timer by one
\* armed with the new values and fetches at once with them; a tick fetches
\* with the topic that is selected when it fires.
RestartedWithCurrent ==
  (/\ page = "Events"
   /\ lastAction \in {"setSelectedTopic", "setPollInterval"}
   /\ wasPolling
   /\ Settled)
  => /\ isPolling
     /\ timers = {[id |-> intervalRef, req |-> CurrentRequest, interval |-> pollInterval]}
     /\ Len(issued) > 0
     /\ \A i \in 1..Len(issued) : issued[i] = CurrentRequest

TickUsesCurrentTopic ==
  (page = "Events" /\ Settled /\ lastAction' = "tick") =>
    \A i \in 1..Len(issued') : issued'[i].topic = selectedTopic

C9_RestartOnChange ==
  /\ []RestartedWithCurrent
  /\ [][TickUsesCurrentTopic]_vars

\* the topic was changed while polling and the restart has run
C9_Witness ==
  /\ page = "Events" /\ lastAction = "setSelectedTopic" /\ wasPolling
  /\ Settled /\ isPolling /\ selectedTopic # NoTopic
  /\ Len(issued) > 0

\* C10: the queue never holds more than maxHistory entries, is ordered
\* newest-inserted first, and every step that adds notifications puts them at
\* the head and drops only entries at the tail, and only beyond the capacity.
NewestFirst ==
  \A i, j \in 1..Len(notifications) :
    i < j => notifications[i].id[2] > notifications[j].id[2]

AddsAtHead ==
  LET fresh == SelectSeq(notifications', LAMBDA n : n.id[2] > nseq)
      k == Len(fresh)
      kept == Len(notifications') - k
  IN nseq' > nseq =>
       /\ k > 0
       /\ SubSeq(notifications', 1, k) = fresh
       /\ kept <= Len(notifications)
       /\ SubSeq(notifications', k + 1, Len(notifications')) = SubSeq(notifications, 1, kept)
       /\ (kept < Len(notifications) => Len(notifications') = maxHistory)

C10_BoundedNewestFirst ==
  /\ [](Len(notifications) <= maxHistory /\ NewestFirst)
  /\ [][AddsAtHead]_vars

\* the queue is full and an entry has been pushed out at the tail
C10_Witness ==
  /\ page = "Notifications"
  /\ Len(notifications) = maxHistory
  /\ nseq > maxHistory
  /\ \E e \in seenEventIds : e \notin QueuedEvents /\ lastAction = "response"

\* C11: a cleanup pass leaves no notification that is five minutes old or
\* older, and keeps every younger one, in the order they had.
Young(n) == n.age < ExpiryMinutes

CleanupStep ==
  (Settled /\ lastAction' = "cleanup") =>
    /\ \A i \in 1..Len(notifications') : Young(notifications'[i])
    /\ notifications' = SelectSeq(notifications, Young)

C11_CleanupPurgesExpired == [][CleanupStep]_vars

\* a pass has removed an expired notification and kept a younger one
C11_Witness ==
  /\ page = "Notifications" /\ lastAction = "cleanup"
  /\ 0 < Len(notifications) /\ Len(notifications) < lastArg

\* C12: every notification added to the queue is eventually removed from it
\* while the container is mounted: its toast hides on its timer or on a click
\* and then calls dismissNotification.
InQueue(e) == e \in QueuedEvents

C12_EventuallyDismissed ==
  \A e \in 1..NumEvents : InQueue(e) ~> (~InQueue(e) \/ ~isMounted)

\* a toast was hidden by its timer and has then dismissed its notification,
\* which neither the capacity nor a cleanup pass had removed
C12_Witness ==
  /\ page = "Toasts" /\ lastAction = "dismissNotification"
  /\ isMounted
  /\ nseq <= maxHistory
  /\ \E e \in seenEventIds : e \notin QueuedEvents

\* C13: once a component has unmounted, no interval timer of its hooks is
\* left (polling, auto-refresh, notification cleanup), no request is issued
\* any more, and the responses of the requests then in flight change nothing
\* of the hook's state.
NoTimerLeft == ~isMounted => (timers = {} /\ intervalRef = NoTimer)

NotificationIds(q) == [i \in 1..Len(q) |-> q[i].id]

DeadAfterUnmount ==
  ~isMounted =>
    /\ inflight' \sqsubseteq inflight
    /\ UNCHANGED <<dataVars, loading, error, pollVars, evGen>>
    /\ UNCHANGED <<seenEventIds, notificationsEnabled, nseq>>
    /\ NotificationIds(notifications') = NotificationIds(notifications)

C13_UnmountTearsDown == []NoTimerLeft /\ [][DeadAfterUnmount]_vars

\* the events hook was polling when its page unmounted, and a response of a
\* request in flight at that moment has arrived since
C13_Witness ==
  /\ page = "Events" /\ ~isMounted /\ ~isMountedRef
  /\ lastAction = "response"
  /\ loading /\ BagCardinality(inflight) = 0

\* C14: In useProducts, useOrders, useCustomers, useOrderStats and
\* useWebhookEvents, a fetch whose request throws ends with error set to the
\* Error's message, or to the hook's fixed 'Failed to fetch ...' text when
\* the thrown value is not an Error, and with loading false; the failure
\* issues no request, arms no timer and leaves no effect to run.
ThrowStep ==
  \A req \in BagToSet(inflight), err \in Thrown :
    (isMounted /\ Throw(req, err)) =>
      /\ error' = IF err.isError THEN <<err.message>>
                  ELSE CASE page = "Products" -> <<"Failed to fetch products">>
                         [] page = "Orders" -> <<"Failed to fetch orders">>
                         [] page = "Customers" -> <<"Failed to fetch customers">>
                         [] page = "Dashboard" -> <<"Failed to fetch order stats">>
                         [] page = "Events" -> <<"Failed to fetch webhook events">>
      /\ error' # NoError
      /\ loading' = FALSE
      /\ inflight' (+) SetToBag({req}) = inflight
      /\ timers' = timers
      /\ lastDeps' = Deps'

C14_FailureBecomesError == [][ThrowStep]_vars

C14_Witness ==
  /\ page = "Events" /\ isMounted /\ lastAction = "response"
  /\ error = <<"Failed to fetch webhook events">>
  /\ ~loading /\ BagCardinality(inflight) > 0

\* C15: Each EventClient request throws an Error exactly when the HTTP
\* response is not ok and its status is not 304; a 304 response is treated
\* as success and its body is returned like that of a 2xx response.
ResolveStep ==
  \A url \in BagToSet(inflight), response \in Responses :
    Resolve(url, response) =>
      /\ error' # NoError <=>
           (response.status \notin 200..299 /\ response.status # 304)
      /\ response.status = 304 => (error' = NoError /\ items' # <<>>)

C15_ThrowsExactlyOnBadStatus == [][ResolveStep]_vars

\* C16 (as stated): From any state of a data hook in which error is non-null,
\* a user-triggered refresh whose request succeeds leaves, once it has
\* completed, error = null and the item list equal to the successful
\* response; a failure never leaves the refresh control disabled.
Completes(req) == isMounted /\ recovery.on /\ req = recovery.req /\ Respond(req, TRUE)

Recovered(req) == error' = NoError /\ items' = PageItems(req, created)

RefreshEnabled == (isMounted /\ error # NoError) => ~loading

RefreshClearsError ==
  (error # NoError /\ Settled /\ lastAction' = "handleRefresh") =>
    error' = NoError /\ BagIn(CurrentRequest, inflight')

ArrivalStep ==
  \A req \in BagToSet(inflight) :
    (isMounted /\ Respond(req, TRUE)) =>
      /\ items' = PageItems(req, created)
      /\ totalCount' = created
      /\ pageInfo'.hasNextPage = HasMore(req, created)
      /\ pageInfo'.endCursor = LastOf(PageItems(req, created))
      /\ UNCHANGED pageVars

C17_ArrivalOrder == [][ArrivalStep]_vars

\* the response of the superseded first-page request arrived last
C17_Witness ==
  /\ page \in GraphqlPages /\ isMounted /\ Quiet
  /\ lastAction = "response" /\ error = NoError
  /\ cursor # Null /\ Len(cursorHistory) > 0
  /\ items = PageItems(Request(selectedTopic, limit, Null), created)
  /\ items # PageItems(CurrentRequest, created)

\* C18: useProducts, useOrders and useCustomers issue one fetch on mount, one
\* fetch carrying the new values after every change of limit or cursor, and
\* one fetch per refresh() call; with autoRefresh = true they issue one more
\* fetch per tick of the interval, and with autoRefresh = false no timer
\* exists, so no timer-driven fetch is issued.
OneMore(req) == inflight' = inflight (+) SetToBag({req})

EffectsFetchOnChange ==
  (isMounted /\ lastDeps' # lastDeps) =>
    IF ~lastDeps.ran \/ lastDeps.limit # limit \/ lastDeps.cursor # cursor
    THEN OneMore([topic |-> NoTopic, limit |-> limit, cursor |-> OrNull(cursor)])
    ELSE inflight' = inflight

HandlersFetchOnRefresh ==
  (isMounted /\ Settled) =>
    /\ lastAction' \in {"refresh", "handleRefresh"} => \E req \in BagToSet(inflight') : OneMore(req)
    /\ lastAction' = "tick" => \E t \in timers : OneMore(t.req)
    /\ lastAction' \in {"handleItemsPerPageChange", "handleNextPage",
                        "handlePreviousPage", "unmount"} => inflight' = inflight

TimerIffAutoRefresh ==
  /\ page \in GraphqlPages => timers = {}
  /\ (page \in LivePages /\ isMounted /\ Settled) =>
       timers = {[id |-> intervalRef, req |-> CurrentRequest, interval |-> 30000]}

C18_FetchTriggers ==
  /\ []TimerIffAutoRefresh
  /\ [][EffectsFetchOnChange /\ HandlersFetchOnRefresh]_vars

C18_Witness ==
  /\ page \in GraphqlPages /\ isMounted /\ Settled
  /\ lastAction = "handleNextPage" /\ cursor # Null
  /\ issued = <<Request(NoTopic, itemsPerPage, cursor)>>
  /\ BagCardinality(inflight) = 1

\* C19: On the Events page every handleNextPage or handlePreviousPage that
\* changes the cursor is followed by a fetch carrying the new cursor, whether
\* or not polling was active at the moment of navigation. Once the effects
\* of the navigation have run, only a request they issued or a timer they
\* armed can bring that page without another action of the user.
C19_NavigationFetches ==
  (/\ page = "Events" /\ isMounted /\ Settled
   /\ lastAction \in {"handleNextPage", "handlePreviousPage"}
   /\ cursor # wasCursor)
  => \/ \E i \in 1..Len(issued) : issued[i] = CurrentRequest
     \/ \E t \in timers : t.req = CurrentRequest

\* C20: After handleRefresh on a page other than the first, the items shown
\* once every request has completed are the first page's for every order of
\* arrival, and handleRefresh issues no request carrying the cursor that was
\* current before the reset: every request the refresh and its effects
\* issue is a request for the first page.
C20_RefreshFetchesFirstPageOnly ==
  (/\ page \in PaginatedPages /\ isMounted /\ Settled
   /\ lastAction = "handleRefresh" /\ wasCursor # Null)
  => \A i \in 1..Len(issued) : issued[i].cursor = Null

\* C21: The loading flag of each data hook is true in every state in which
\* at least one fetch of that hook is in flight and false when none is, also
\* when fetches overlap.
C21_LoadingIffInFlight ==
  isMounted => (loading <=> BagCardinality(inflight) > 0)

\* C22: On the Events page, whenever the cursor returns to null (by
\* handlePreviousPage, handleRefresh or handleItemsPerPageChange) after having
\* been non-null, polling is active again once effects settle: isPolling is
\* true, one interval timer is active and a fetch for the first page has been
\* issued.
BackOnFirstPage ==
  /\ page = "Events" /\ isMounted /\ Settled
  /\ lastAction \in {"handlePreviousPage", "handleRefresh", "handleItemsPerPageChange"}
  /\ wasCursor # Null /\ cursor = Null

NoPollingWhileOff ==
  (page \in TrackerPages /\ isMounted /\ Settled /\ ~notificationsEnabled) =>
    /\ ~isPolling /\ intervalRef = NoTimer
    /\ \A t \in timers : t.req = CleanupJob

OffStep ==
  (page \in TrackerPages /\ ~notificationsEnabled /\ ~notificationsEnabled') =>
    /\ nseq' = nseq /\ emitted' = emitted
    /\ Len(notifications') <= Len(notifications)
    /\ seenEventIds' = seenEventIds
    /\ inflight' \sqsubseteq inflight

ToggleStep ==
  (page \in TrackerPages /\ Settled /\ lastAction' = "toggleNotifications") =>
    /\ notificationsEnabled' = ~notificationsEnabled
    /\ UNCHANGED <<notifications, seenEventIds>>

C23_NothingWhileDisabled ==
  /\ []NoPollingWhileOff
  /\ [][OffStep /\ ToggleStep]_vars

\* a response arrived while off with an order event that was never seen
C23_Witness ==
  /\ page = "Notifications" /\ isMounted /\ Settled /\ ~notificationsEnabled
  /\ lastAction = "response"
  /\ \E i \in 1..Len(items) :
       items[i] \notin seenEventIds /\ StartsWith(TopicOf(items[i]), "orders")

\* C24: A notification is added only for an event whose topic starts with
\* the prefix of an enabled category; with NotificationContainer's
\* configuration (orders only) every notification in the queue has a topic
\* starting with 'orders/', and an event that is filtered out is not added
\* to the seen-id set.
IsOrderEvent(e) == TopicOf(e)[1] = "orders"

OnlyOrdersQueued ==
  /\ \A i \in 1..Len(notifications) : IsOrderEvent(notifications[i].event)
  /\ \A e \in seenEventIds : IsOrderEvent(e)
  /\ \A e \in 1..NumEvents : emitted[e] > 0 => IsOrderEvent(e)

C24_OnlyEnabledCategories == page \in TrackerPages => OnlyOrdersQueued

\* a product event was delivered next to an order event and left out
C24_Witness ==
  /\ page = "Notifications" /\ isMounted /\ Settled /\ notificationsEnabled
  /\ \E i \in 1..Len(items) : ~IsOrderEvent(items[i]) /\ items[i] \notin seenEventIds
  /\ \E i \in 1..Len(items) : IsOrderEvent(items[i]) /\ items[i] \in seenEventIds
  /\ Len(notifications) > 0

\* C25: The fetch of useWebhookEvents requests events and stats together
\* and is all-or-nothing with respect to thrown errors: if either call
\* throws, none of events, pageInfo, stats, totalCount and lastFetched
\* changes, even when the other call succeeded, and error is set; when
\* neither throws, an events envelope with success=false sets error and
\* leaves events and pageInfo unchanged, while a stats envelope with
\* success=false leaves stats, totalCount and error unchanged.
AllOrNothingStep ==
  \A req \in BagToSet(inflight), events \in Outcomes, stats \in Outcomes,
     message \in EnvelopeMessages :
    (isMountedRef /\ PromiseAll(req, events, stats, message)) =>
      /\ "throw" \in {events, stats} =>
           /\ UNCHANGED <<items, pageInfo, totalCount, lastFetched>>
           /\ error' = <<ErrMsg>>
      /\ "throw" \notin {events, stats} =>
           /\ lastFetched' # lastFetched
           /\ events = "failure" =>
                /\ error' = <<IF message = "" THEN "Failed to fetch webhook events"
                                               ELSE message>>
                /\ UNCHANGED <<items, pageInfo>>
           /\ events = "success" =>
                /\ items' = PageItems(req, created)
                /\ UNCHANGED error
           /\ stats = "failure" => UNCHANGED totalCount
           /\ stats = "success" => totalCount' = created
      /\ ~loading'

C25_AllOrNothing == [][AllOrNothingStep]_vars

\* a fetch threw after an earlier one had been applied: the list, the page
\* info, the count and the time of that earlier answer are still shown
C25_Witness ==
  /\ page = "Events" /\ isMountedRef /\ lastAction = "response"
  /\ error = <<ErrMsg>> /\ ~loading
  /\ items # <<>> /\ totalCount = created /\ lastFetched # Null

\* C26: useProductSync.syncProducts on a failed request sets error to the
\* failure message, rethrows the original exception to its caller, leaves
\* data equal to the result of the last successful sync, and ends with
\* loading = false; on success it sets data to the returned result,
\* returns it, and error is null.
SyncStep ==
  /\ \A err \in Thrown :
       (isMounted /\ syncRejected(err)) =>
         /\ error' = <<IF err.isError THEN err.message ELSE "Failed to sync products">>
         /\ promise'.state = "rejected" /\ promise'.thrown = <<err>>
         /\ UNCHANGED data
         /\ ~loading'
  /\ \A result \in SyncResults :
       (isMounted /\ syncFulfilled(result)) =>
         /\ data' = <<result>>
         /\ promise'.state = "fulfilled" /\ promise'.returned = <<result>>
         /\ error' = NoError
         /\ ~loading'

ThrowFrameStep ==
  \A req \in BagToSet(inflight), err \in Thrown :
    (page \in GraphqlPages /\ isMounted /\ Throw(req, err)) =>
      /\ UNCHANGED <<items, totalCount, pageInfo, lastFetched>>
      /\ UNCHANGED <<itemsPerPage, cursor, cursorHistory, startIndex>>
      /\ error' # NoError
      /\ ~loading'

C27_ThrowKeepsPage == [][ThrowFrameStep]_vars

\* the page loaded before is still shown next to the error
C27_Witness ==
  /\ page \in GraphqlPages /\ isMounted /\ lastAction = "response"
  /\ error # NoError /\ ~loading
  /\ items # <<>> /\ totalCount = created /\ lastFetched # Null

\* C28: In every reachable pagination state of the four paginated pages
\* cursor is null exactly when cursorHistory is empty, and the empty string
\* occurs in cursorHistory only at index 0; so canGoPrevious holds exactly
\* when cursor is not null, and the history-empty branch of
\* handlePreviousPage never changes the state.
HistoryEmptyBranchIdle ==
  (Ready /\ cursorHistory = <<>>) => (cursor = Null /\ startIndex = 1)

C28_CursorIffHistory ==
  page \in PaginatedPages =>
    /\ cursor = Null <=> cursorHistory = <<>>
    /\ \A i \in 1..Len(cursorHistory) : cursorHistory[i] = EmptyStr <=> i = 1
    /\ canGoPrevious <=> cursor # Null
    /\ HistoryEmptyBranchIdle

\* two pages deep: the history holds '' and then a real cursor
C28_Witness ==
  /\ page \in PaginatedPages /\ Ready
  /\ Len(cursorHistory) = 2 /\ cursorHistory[1] = EmptyStr /\ cursorHistory[2] # EmptyStr
  /\ cursor # Null

\* C29: In every reachable settled state of the four paginated pages
\* startIndex = 1 + Len(cursorHistory) * itemsPerPage, whatever sequence of
\* Next, Previous, refresh and page-size changes led there; startIndex is
\* never below 1 and is 1 whenever cursor is null.
C29_StartIndexFormula ==
  (page \in PaginatedPages /\ isMounted /\ Settled) =>
    /\ startIndex = 1 + Len(cursorHistory) * itemsPerPage
    /\ startIndex >= 1
    /\ cursor = Null => startIndex = 1

\* back by one page from two pages deep
C29_Witness ==
  /\ page \in PaginatedPages /\ isMounted /\ Settled
  /\ lastAction = "handlePreviousPage"
  /\ Len(cursorHistory) = 1 /\ startIndex = 1 + itemsPerPage

\* C30: For each useWebhookEvents instance at most one interval timer
\* created by the hook is active in every reachable state, and once effects
\* have settled isPolling is true exactly when that timer is active; no
\* sequence of startPolling, stopPolling, dependency-driven restarts and
\* unmount leaves a timer that stopPolling cannot clear.
PollTimers == {t \in timers : t.req # CleanupJob}

C30_OnePollTimer ==
  page \in {"Events"} \cup TrackerPages =>
    /\ Cardinality(PollTimers) <= 1
    /\ \A t \in PollTimers : t.id = intervalRef
    /\ intervalRef # NoTimer => \E t \in PollTimers : t.id = intervalRef
    /\ (isMounted /\ Settled) => (isPolling <=> PollTimers # {})

\* polling was restarted by a dependency change while a timer was armed
C30_Witness ==
  /\ page = "Events" /\ isMounted /\ Settled
  /\ lastAction \in {"setSelectedTopic", "setPollInterval"} /\ wasPolling
  /\ isPolling /\ Cardinality(PollTimers) = 1

====
